---- MODULE Spec2Model ----
(***************************************************************************)
(* dbml_builder/build.py: get_dbml_version, verify and generate_models.    *)
(*                                                                         *)
(* The state is the output directory (info.json, schema.py, orm.py), the   *)
(* version note of the DBML source, the process-wide sys.stdout, the       *)
(* platform's line separator (os.linesep, which text-mode writes           *)
(* substitute for "\n") and the frame of a running generate_models call.   *)
(*                                                                         *)
(* The external collaborators (PyDBML, omymodels.create_models, the patch  *)
(* functions) are opaque: each call either raises or returns some text.    *)
(* Generated text is ASCII, so str.encode() and the locale encoding of a   *)
(* text-mode file agree on every character; only the newline translation   *)
(* of text mode distinguishes the bytes written from the bytes hashed.     *)
(* SHA-1 is taken to be collision-free on the byte strings in range.       *)
(***************************************************************************)
EXTENDS Integers, Sequences, FiniteSets, TLC

VARIABLES
    disk,            \* the three files of generated_dir
    src_version,     \* dbml.project.note.text of the schema source, or NoNote
    linesep,         \* os.linesep as bytes
    stdout,          \* the stream sys.stdout is bound to
    pc,              \* position of generate_models
    schema_content,  \* local of generate_models
    orm_content,     \* local of generate_models
    visible,         \* local of generate_models
    failedAt,        \* the step whose exception ended the last call
    run,             \* history of the call in progress or just ended
    since,           \* history: what was edited since the last successful call
    verified         \* the last verify call: its argument, outcome and reads

vars == <<disk, src_version, linesep, stdout, pc, schema_content, orm_content,
          visible, failedAt, run, since, verified>>

\* Longest generated text, in characters.
MaxLen == 2

INFO == "info.json"
SCHEMAS == "schema.py"
ORM == "orm.py"

Versions == {"1.0.0", "1.0.1"}
NoNote == "<no project note>"
LineSeps == {<<10>>, <<13, 10>>}

\* Generated text: lines "a", the last one with or without its newline.
Text(n) == [i \in 1..n |-> IF i % 2 = 1 THEN "a" ELSE "\n"]
Texts == {Text(n) : n \in 0..MaxLen}

----------------------------------------------------------------------------
\* Conversions.

\* One character as its UTF-8 byte.
Utf8(c) == IF c = "\n" THEN 10 ELSE 97

\* str.encode(): the text's UTF-8 bytes, newlines untouched.
RECURSIVE encode(_)
encode(text) ==
    IF text = <<>> THEN <<>>
    ELSE <<Utf8(Head(text))>> \o encode(Tail(text))

\* open(path, 'w').write(text): every "\n" becomes os.linesep.
RECURSIVE TextWrite(_, _)
TextWrite(text, ls) ==
    IF text = <<>> THEN <<>>
    ELSE (IF Head(text) = "\n" THEN ls ELSE <<Utf8(Head(text))>>)
         \o TextWrite(Tail(text), ls)

\* A digest of the first byte alone.
sha1Colliding(bytes) == IF bytes = <<>> THEN 0 ELSE bytes[1] + 1

\* sha1(bytes).hexdigest(): a fingerprint, injective on ASCII byte strings.
RECURSIVE sha1(_)
sha1(bytes) ==
    IF bytes = <<>> THEN 0
    ELSE sha1(SubSeq(bytes, 1, Len(bytes) - 1)) * 129 + bytes[Len(bytes)] + 1

----------------------------------------------------------------------------
\* The files of generated_dir.

AbsentFile == [exists |-> FALSE, data |-> <<>>]
File(bytes) == [exists |-> TRUE, data |-> bytes]

\* What json.load finds in info.json: text that is no JSON, a JSON value that
\* is no object, or an object holding some of the three keys.
Keys == {"version", "schema_hash", "orm_hash"}
Unparseable ==
    [kind |-> "unparseable", keys |-> {}, version |-> "", schema_hash |-> -1,
     orm_hash |-> -1]
NonObject ==
    [kind |-> "nonobject", keys |-> {}, version |-> "", schema_hash |-> -1,
     orm_hash |-> -1]
Object(keys, version, schema_hash, orm_hash) ==
    [kind |-> "object", keys |-> keys,
     version |-> IF "version" \in keys THEN version ELSE "",
     schema_hash |-> IF "schema_hash" \in keys THEN schema_hash ELSE -1,
     orm_hash |-> IF "orm_hash" \in keys THEN orm_hash ELSE -1]
AbsentInfo == [exists |-> FALSE, data |-> Unparseable]

EmptyDir == [info |-> AbsentInfo, schema |-> AbsentFile, orm |-> AbsentFile]

\* Every content a text-mode write of a generated text can leave in a file.
FileBytes == {TextWrite(t, ls) : t \in Texts, ls \in LineSeps}
Digests == {sha1(b) : b \in FileBytes}
InfoValues ==
    {Unparseable, NonObject}
    \cup {Object(k, v, sh, oh) :
            k \in SUBSET Keys, v \in Versions, sh \in Digests, oh \in Digests}
SourceFiles == {AbsentFile} \cup {File(b) : b \in FileBytes}
DirStates ==
    [info : {AbsentInfo} \cup {File(i) : i \in InfoValues},
     schema : SourceFiles, orm : SourceFiles]

----------------------------------------------------------------------------
\* verify(version, generated_dir)

\* Line 53 without the comparison of the ORM hash.
CompareNoOrm(info, version, schema_hash, orm_hash) ==
    IF info.kind = "nonobject" THEN "TypeError"
    ELSE IF "version" \notin info.keys THEN "KeyError"
    ELSE IF info.version # version THEN "False"
    ELSE IF "schema_hash" \notin info.keys THEN "KeyError"
    ELSE IF info.schema_hash # schema_hash THEN "False" ELSE "True"

\* Line 53 without the comparison of the version.
CompareNoVersion(info, version, schema_hash, orm_hash) ==
    IF info.kind = "nonobject" THEN "TypeError"
    ELSE IF "schema_hash" \notin info.keys THEN "KeyError"
    ELSE IF info.schema_hash # schema_hash THEN "False"
    ELSE IF "orm_hash" \notin info.keys THEN "KeyError"
    ELSE IF info.orm_hash # orm_hash THEN "False" ELSE "True"

\* Line 53: the three comparisons, left to right; `and` stops at the first
\* that is false, and a subscript of a missing key or of a non-object raises.
Compare(info, version, schema_hash, orm_hash) ==
    IF info.kind = "nonobject" THEN "TypeError"
    ELSE IF "version" \notin info.keys THEN "KeyError"
    ELSE IF info.version # version THEN "False"
    ELSE IF "schema_hash" \notin info.keys THEN "KeyError"
    ELSE IF info.schema_hash # schema_hash THEN "False"
    ELSE IF "orm_hash" \notin info.keys THEN "KeyError"
    ELSE IF info.orm_hash # orm_hash THEN "False" ELSE "True"

\* What follows the existence test: the three reads in the order of lines
\* 47-52, then the comparison.
ReadAndCompare(version, d) ==
    IF ~d.orm.exists
    THEN [outcome |-> "FileNotFoundError", reads |-> <<>>]
    ELSE IF ~d.schema.exists
    THEN [outcome |-> "FileNotFoundError", reads |-> <<ORM>>]
    ELSE IF ~d.info.exists
    THEN [outcome |-> "FileNotFoundError", reads |-> <<ORM, SCHEMAS>>]
    ELSE IF d.info.data.kind = "unparseable"
    THEN [outcome |-> "JSONDecodeError", reads |-> <<ORM, SCHEMAS, INFO>>]
    ELSE [outcome |-> Compare(d.info.data, version, sha1(d.schema.data),
                              sha1(d.orm.data)),
          reads |-> <<ORM, SCHEMAS, INFO>>]

\* verify whose existence test looks at info.json alone.
verifyTestsInfoOnly(version, d) ==
    IF d.info.exists
    THEN ReadAndCompare(version, d)
    ELSE [outcome |-> "False", reads |-> <<>>]

\* verify whose existence test looks at all three files.
verifyTestsAllThree(version, d) ==
    IF d.info.exists /\ d.schema.exists /\ d.orm.exists
    THEN ReadAndCompare(version, d)
    ELSE [outcome |-> "False", reads |-> <<>>]

\* verify: its outcome (the value returned, or the exception raised) and the
\* files it has read by then.
verify(version, d) ==
    IF d.info.exists /\ d.schema.exists
    THEN ReadAndCompare(version, d)
    ELSE [outcome |-> "False", reads |-> <<>>]

NotCalled == [called |-> FALSE, version |-> "", outcome |-> "", reads |-> <<>>]

----------------------------------------------------------------------------
\* generate_models(dbml_path, generated_dir), one action per step.  A stream
\* is the terminal, the null-sink handle opened by the call in progress or by
\* the last call ("devnull"), or a null-sink handle an earlier call left
\* behind ("devnull, stale"): open(devnull, 'w') returns a new handle each
\* time.

Ended == {"idle", "done", "failed"}
Raising ==
    {"prepare", "create_schema", "create_orm", "write_schema", "write_orm",
     "write_info"}

Stale(stream) == IF stream = "devnull" THEN "devnull, stale" ELSE stream

\* The directory holds an artifact set that verify accepts for some version.
InSync(d) == \E v \in Versions : verify(v, d).outcome = "True"

NoRun == [stdout |-> "terminal", in_sync |-> FALSE, wrote |-> {}, changed |-> FALSE]

\* The driver calls generate_models.  The history records the stream that
\* sys.stdout is bound to and whether the directory is in sync.
GenerateCall ==
    /\ pc \in Ended
    /\ pc' = "prepare"
    /\ stdout' = Stale(stdout)
    /\ run' = [stdout |-> Stale(stdout), in_sync |-> InSync(disk),
               wrote |-> {}, changed |-> FALSE]
    /\ failedAt' = ""
    /\ since' = "none"
    /\ verified' = NotCalled
    /\ UNCHANGED <<disk, src_version, linesep, schema_content, orm_content,
                   visible>>

\* Lines 67-74: makedirs, the parse, patch_ddl, and the redirection.
Prepare ==
    /\ pc = "prepare"
    /\ visible' = stdout
    /\ stdout' = "devnull"
    /\ pc' = "create_schema"
    /\ UNCHANGED <<disk, src_version, linesep, schema_content, orm_content,
                   failedAt, run, since, verified>>

\* Lines 76-78: create_models(..., 'pydantic') and patch_schema return.
CreateSchema ==
    /\ pc = "create_schema"
    /\ \E text \in Texts : schema_content' = text
    /\ pc' = "create_orm"
    /\ UNCHANGED <<disk, src_version, linesep, stdout, orm_content, visible,
                   failedAt, run, since, verified>>

\* Lines 80-82: create_models(..., 'sqlalchemy') and patch_orm return.
CreateOrm ==
    /\ pc = "create_orm"
    /\ \E text \in Texts : orm_content' = text
    /\ pc' = "restore"
    /\ UNCHANGED <<disk, src_version, linesep, stdout, schema_content, visible,
                   failedAt, run, since, verified>>

\* Line 84.
RestoreStdout ==
    /\ pc = "restore"
    /\ stdout' = visible
    /\ pc' = "write_schema"
    /\ UNCHANGED <<disk, src_version, linesep, schema_content, orm_content,
                   visible, failedAt, run, since, verified>>

\* The history after a write step has put `file` in place of `before`.
Wrote(name, before, file) ==
    [run EXCEPT !.wrote = @ \cup {name},
                !.changed = @ \/ before # file]

\* Lines 86-87.
WriteSchema ==
    /\ pc = "write_schema"
    /\ LET file == File(TextWrite(schema_content, linesep)) IN
         /\ disk' = [disk EXCEPT !.schema = file]
         /\ run' = Wrote(SCHEMAS, disk.schema, file)
    /\ pc' = "write_orm"
    /\ UNCHANGED <<src_version, linesep, stdout, schema_content, orm_content,
                   visible, failedAt, since, verified>>

\* Lines 89-90.
WriteOrm ==
    /\ pc = "write_orm"
    /\ LET file == File(TextWrite(orm_content, linesep)) IN
         /\ disk' = [disk EXCEPT !.orm = file]
         /\ run' = Wrote(ORM, disk.orm, file)
    /\ pc' = "write_info"
    /\ UNCHANGED <<src_version, linesep, stdout, schema_content, orm_content,
                   visible, failedAt, since, verified>>

\* get_dbml_version: the text of the project note; without a note,
\* dbml.project.note.text raises.
get_dbml_version == src_version
get_dbml_version_raises == src_version = NoNote

\* Lines 93-100: the record is built from the texts in memory and dumped.
WriteInfo ==
    /\ pc = "write_info"
    /\ ~get_dbml_version_raises
    /\ disk' = [disk EXCEPT !.info =
                  File(Object(Keys, get_dbml_version,
                              sha1(encode(schema_content)),
                              sha1(encode(orm_content))))]
    /\ run' = [run EXCEPT !.wrote = @ \cup {INFO}]
    /\ pc' = "done"
    /\ since' = "fresh"
    /\ schema_content' = <<>>
    /\ orm_content' = <<>>
    /\ visible' = ""
    /\ UNCHANGED <<src_version, linesep, stdout, failedAt, verified>>

\* The frame of a call that ends in an exception is dropped.
EndInException ==
    /\ pc' = "failed"
    /\ failedAt' = pc
    /\ schema_content' = <<>>
    /\ orm_content' = <<>>
    /\ visible' = ""
    /\ UNCHANGED <<src_version, linesep, stdout, run, since, verified>>

\* An exception that deletes what the call has written.
RaiseRollback ==
    /\ pc \in Raising
    /\ EndInException
    /\ disk' = [disk EXCEPT
                  !.schema = IF SCHEMAS \in run.wrote THEN AbsentFile ELSE @,
                  !.orm = IF ORM \in run.wrote THEN AbsentFile ELSE @]

\* A step raises (a collaborator fails, a file cannot be opened): the
\* exception leaves generate_models, which has no handler and no finally.
Raise ==
    /\ pc \in Raising
    /\ EndInException
    /\ UNCHANGED disk

\* The file of a write step is opened, hence truncated, and the write fails.
RaiseTruncated ==
    /\ pc \in {"write_schema", "write_orm", "write_info"}
    /\ EndInException
    /\ disk' = CASE pc = "write_schema" -> [disk EXCEPT !.schema = File(<<>>)]
                 [] pc = "write_orm" -> [disk EXCEPT !.orm = File(<<>>)]
                 [] OTHER -> [disk EXCEPT !.info = File(Unparseable)]

----------------------------------------------------------------------------
\* The environment between calls: edits of the generated files and of the
\* schema source, and the driver's calls of verify.

OutOfBand ==
    /\ pc \in Ended
    /\ pc' = "idle"
    /\ failedAt' = ""
    /\ run' = NoRun
    /\ verified' = NotCalled
    /\ UNCHANGED <<linesep, stdout, schema_content, orm_content, visible>>

\* schema.py or orm.py gets another content.
Tamper ==
    /\ OutOfBand
    /\ \E f \in {"schema", "orm"}, b \in FileBytes :
         /\ disk[f] # File(b)
         /\ disk' = [disk EXCEPT ![f] = File(b)]
         /\ since' = IF since = "fresh" /\ disk[f].exists THEN f ELSE "none"
    /\ UNCHANGED src_version

\* A file of the directory is deleted.
Remove ==
    /\ OutOfBand
    /\ \E f \in {"info", "schema", "orm"} :
         /\ disk[f].exists
         /\ disk' = [disk EXCEPT ![f] = IF f = "info" THEN AbsentInfo
                                         ELSE AbsentFile]
    /\ since' = "none"
    /\ UNCHANGED src_version

\* The project note of the schema source is changed or removed.
EditSource ==
    /\ OutOfBand
    /\ \E v \in (Versions \cup {NoNote}) \ {src_version} :
         /\ src_version' = v
         /\ since' = IF since = "fresh" /\ v # NoNote THEN "version" ELSE "none"
    /\ UNCHANGED disk

\* The driver calls verify(version, generated_dir).
Verify ==
    /\ pc \in Ended
    /\ \E version \in Versions :
         verified' = [called |-> TRUE, version |-> version,
                      outcome |-> verify(version, disk).outcome,
                      reads |-> verify(version, disk).reads]
    /\ UNCHANGED <<disk, src_version, linesep, stdout, pc, schema_content,
                   orm_content, visible, failedAt, run, since>>

----------------------------------------------------------------------------
\* The life of an output directory that starts empty.

Idle ==
    /\ pc = "idle"
    /\ stdout = "terminal"
    /\ schema_content = <<>>
    /\ orm_content = <<>>
    /\ visible = ""
    /\ failedAt = ""
    /\ run = NoRun
    /\ since = "none"
    /\ verified = NotCalled

Init ==
    /\ Idle
    /\ disk = EmptyDir
    /\ src_version \in Versions \cup {NoNote}
    /\ linesep \in LineSeps

generate_models ==
    \/ GenerateCall
    \/ Prepare
    \/ CreateSchema
    \/ CreateOrm
    \/ RestoreStdout
    \/ WriteSchema
    \/ WriteOrm
    \/ WriteInfo
    \/ Raise
    \/ RaiseTruncated

Next ==
    \/ generate_models
    \/ Tamper
    \/ Remove
    \/ EditSource
    \/ Verify

Spec == Init /\ [][Next]_vars

\* verify called on a directory in any state.
InitVerify ==
    /\ Idle
    /\ disk \in DirStates
    /\ src_version = "1.0.0"
    /\ linesep = <<10>>

NextVerify == Verify

SpecVerify == InitVerify /\ [][NextVerify]_vars

----------------------------------------------------------------------------
\* Properties.

AllThreeExist == disk.info.exists /\ disk.schema.exists /\ disk.orm.exists

\* info.json holds an object with the three keys.
WellFormed == disk.info.data.kind = "object" /\ disk.info.data.keys = Keys

Returned == verified.outcome \in {"True", "False"}

\* C1: a call of generate_models that has returned is followed by
\* verify(get_dbml_version(dbml_path), dir) returning true.
C1_RoundTrip ==
    (pc = "done" /\ since = "fresh" /\ verified.called
       /\ verified.version = get_dbml_version)
    => verified.outcome = "True"

\* C2: with all three files present and a well-formed record, verify returns
\* true exactly when the recorded version is the supplied one and the two
\* recorded hashes are the digests of the bytes of schema.py and orm.py, and
\* false otherwise.
C2_TrueIffAllMatch ==
    (verified.called /\ AllThreeExist /\ WellFormed)
    => /\ Returned
       /\ verified.outcome = "True" <=>
            /\ disk.info.data.version = verified.version
            /\ disk.info.data.schema_hash = sha1(disk.schema.data)
            /\ disk.info.data.orm_hash = sha1(disk.orm.data)

C2_Witness ==
    /\ verified.called /\ AllThreeExist /\ WellFormed
    /\ verified.outcome = "True"
    /\ disk.schema.data # disk.orm.data

\* C3: without info.json or without schema.py, verify returns false and
\* raises nothing, whatever else the directory holds.
C3_AbsentIsFalse ==
    (verified.called /\ (~disk.info.exists \/ ~disk.schema.exists))
    => verified.outcome = "False"

C3_Witness ==
    /\ verified.called
    /\ disk.info.exists /\ ~disk.schema.exists /\ ~disk.orm.exists
    /\ verified.outcome = "False"

\* C4: when generate_models has ended, by returning or by an exception,
\* sys.stdout is the stream it was when the call was entered.
C4_StdoutRestored ==
    pc \in {"done", "failed"} => stdout = run.stdout

\* C5: after a call of generate_models that has returned, another content of
\* schema.py or of orm.py, all else unchanged, makes verify return false.
C5_EditDetected ==
    (since \in {"schema", "orm"} /\ verified.called
       /\ verified.version = get_dbml_version)
    => verified.outcome = "False"

\* C6: after a call of generate_models that has returned, another version
\* note in the schema source, the generated files untouched, makes verify of
\* the new version return false.
C6_NewVersionIsStale ==
    (since = "version" /\ verified.called
       /\ verified.version = get_dbml_version)
    => verified.outcome = "False"

C6_Witness ==
    /\ since = "version" /\ verified.called
    /\ verified.version = get_dbml_version
    /\ verified.outcome = "False"
    /\ verify(disk.info.data.version, disk).outcome = "True"

\* C7: with all three files present and info.json malformed (no JSON, or
\* without one of the three keys), verify ends in an exception; it returns
\* neither false nor true.
C7_MalformedIsFatal ==
    (verified.called /\ AllThreeExist /\ ~WellFormed) => ~Returned

\* C8: with info.json and schema.py present and orm.py absent, verify raises
\* file-not-found, before it has read schema.py or info.json.
C8_MissingOrmRaises ==
    (verified.called /\ disk.info.exists /\ disk.schema.exists
       /\ ~disk.orm.exists)
    => /\ verified.outcome = "FileNotFoundError"
       /\ verified.reads = <<>>

C8_Witness ==
    /\ verified.called /\ disk.info.exists /\ disk.schema.exists
    /\ ~disk.orm.exists
    /\ disk.info.data.kind = "unparseable"
    /\ verified.outcome = "FileNotFoundError"

C10_HalfRegeneratedIsNotInSync ==
    (pc = "failed" /\ failedAt \in {"write_orm", "write_info"}
       /\ run.in_sync /\ run.changed /\ verified.called)
    => verified.outcome # "True"

C10_Witness ==
    /\ pc = "failed" /\ failedAt = "write_info"
    /\ run.in_sync /\ run.changed /\ verified.called
    /\ disk.info.data.kind = "object"
    /\ verified.version = disk.info.data.version
    /\ verified.outcome = "False"

====
